---- MODULE Spec2Model ----
(***************************************************************************)
(* A model of the AST layer of the Monicelli compiler (src/src/Nodes.hpp): *)
(* the Localizable capability, the optional owned slots, the equality and *)
(* hash contracts, the Program aggregate and the double-dispatch emission *)
(* protocol.                                                               *)
(***************************************************************************)
EXTENDS Integers, Sequences, FiniteSets, TLC

VARIABLES
    \* ---- Localizable objects
    loc,          \* loc[n]: the private field Localizable::loc of object n
    locFirst,     \* history: argument of the first setLocation on n
    locLast,      \* history: argument of the latest setLocation on n
    locRead,      \* the latest getLocation call and what it returned
    \* ---- a Program under construction
    main,         \* Program::main: nullptr or the owned Function
    functions,    \* Program::functions: the owned sequence of Functions
    modules,      \* Program::modules: the owned set of Modules
    nextObj,      \* the next object the producer allocates
    addLog,       \* history: the arguments of addFunction, in call order
    firstMain,    \* history: the first Function the main slot held
    lastOp,       \* history: the latest Program operation and its argument
    \* ---- nodes with an optional owned slot
    objHeap,      \* the child objects allocated so far, by address
    slotNodes,    \* the nodes constructed so far
    slotSupplied, \* history: the child pointer each constructor was given
    slotRead,     \* the latest accessor call and what it returned
    \* ---- two function prototypes under comparison
    strHeap,      \* the std::string objects the identifiers own, by address
    protoA,       \* the first FunctionPrototype
    protoB,       \* the second FunctionPrototype
    protoCmp,     \* the answers of operator== and of hash_value on the two
    \* ---- operator-fixing specializations
    binObj,       \* the latest full binary expression constructed
    semiObj,      \* the latest partial binary expression constructed
    \* ---- one emission of a tree through a backend
    emitRoot,     \* the node whose emit is called
    failSet,      \* the nodes at which the backend's own work fails
    emitOut       \* the call's answer and what the backend observed

locVars == <<loc, locFirst, locLast, locRead>>
progVars == <<main, functions, modules, nextObj, addLog, firstMain, lastOp>>

slotVars == <<objHeap, slotNodes, slotSupplied, slotRead>>

protoVars == <<strHeap, protoA, protoB, protoCmp>>
opVars == <<binObj, semiObj>>
emitVars == <<emitRoot, failSet, emitOut>>

vars == <<locVars, progVars, slotVars, protoVars, opVars, emitVars>>

\* what each group of operations leaves alone
notLocVars == <<progVars, slotVars, protoVars, opVars, emitVars>>
notProgVars == <<locVars, slotVars, protoVars, opVars, emitVars>>
notSlotVars == <<locVars, progVars, protoVars, opVars, emitVars>>
notProtoVars == <<locVars, progVars, slotVars, opVars, emitVars>>
notOpVars == <<locVars, progVars, slotVars, protoVars, emitVars>>
notEmitVars == <<locVars, progVars, slotVars, protoVars, opVars>>

----------------------------------------------------------------------------
(* Vocabulary                                                              *)

\* enum class Type
Type == {"INT", "CHAR", "FLOAT", "BOOL", "DOUBLE", "VOID", "UNKNOWN"}

\* enum class Operator
Operator == {"PLUS", "MINUS", "TIMES", "DIV", "SHL", "SHR",
             "LT", "GT", "GTE", "LTE", "EQ"}

\* the null pointer
nullptr == 0

----------------------------------------------------------------------------
(* Localizable                                                             *)

\* number of Localizable objects followed
NumLocalizable == 2
\* source positions a producer may supply are 1..MaxLocation
MaxLocation == 3

LocObjects == 1..NumLocalizable
Locations == 1..MaxLocation
\* a default-constructed location (the field before any setLocation)
DefaultLocation == 0
Unset == -1
NoRead == [node |-> 0, value |-> DefaultLocation]

\* a setter that keeps the first value
Localizable_setLocation_WriteOnce(l0, l) ==
    IF l0 = DefaultLocation THEN l ELSE l0

\* void setLocation(location const& l) { loc = l; }
\* the new value of the field loc, given its old value l0
Localizable_setLocation(l0, l) == l

\* location const& getLocation() const { return loc; }
Localizable_getLocation(n) == loc[n]

LocInit ==
    /\ loc = [n \in LocObjects |-> DefaultLocation]
    /\ locFirst = [n \in LocObjects |-> Unset]
    /\ locLast = [n \in LocObjects |-> Unset]
    /\ locRead = NoRead

SetLocation(n, l) ==
    /\ loc' = [loc EXCEPT ![n] = Localizable_setLocation(loc[n], l)]
    /\ locFirst' = [locFirst EXCEPT ![n] = IF @ = Unset THEN l ELSE @]
    /\ locLast' = [locLast EXCEPT ![n] = l]
    /\ UNCHANGED locRead
    /\ UNCHANGED notLocVars

GetLocation(n) ==
    /\ locRead' = [node |-> n, value |-> Localizable_getLocation(n)]
    /\ UNCHANGED <<loc, locFirst, locLast>>
    /\ UNCHANGED notLocVars

LocSet == \E n \in LocObjects, l \in Locations : SetLocation(n, l)
LocGet == \E n \in LocObjects : GetLocation(n)

----------------------------------------------------------------------------
(* Strings, identifiers and hashing                                        *)

\* names are strings of at most MaxNameLen characters over Alphabet
MaxNameLen == 2
Alphabet == {"a", "b"}
Names == UNION {[1..k -> Alphabet] : k \in 0..MaxNameLen}

\* width of the modelled size_t
HashBits == 4
HashMod == 2 ^ HashBits
CharCode(c) == IF c = "a" THEN 1 ELSE 2

\* std::hash<std::string>: a function of the characters alone
RECURSIVE StdHashString(_)
StdHashString(s) ==
    IF s = <<>> THEN 7
    ELSE (StdHashString(SubSeq(s, 1, Len(s) - 1)) * 5 + CharCode(s[Len(s)])) % HashMod

\* std::hash<bool>
StdHashBool(b) == IF b THEN 1 ELSE 0

\* bitwise exclusive or of two naturals
RECURSIVE Xor(_, _)
Xor(x, y) ==
    IF x = 0 THEN y
    ELSE IF y = 0 THEN x
    ELSE 2 * Xor(x \div 2, y \div 2) + (((x % 2) + (y % 2)) % 2)

----------------------------------------------------------------------------
(* Module                                                                  *)

\* enum ModuleType { SYSTEM, USER }: the enumerators' integer values
ModuleType == {"SYSTEM", "USER"}
ModuleTypeValue(t) == IF t = "SYSTEM" THEN 0 ELSE 1

\* bool operator==(const Module &a, const Module &b)
Module_eq(a, b) == (a.name = b.name) /\ (a.type = b.type)

\* a hash of the object's address instead of its name and kind
Module_hash_value_ByAddress(e) == e.id % HashMod

\* size_t hash_value(const monicelli::Module &e)
Module_hash_value(e) ==
    Xor(StdHashString(e.name), StdHashBool(ModuleTypeValue(e.type) # 0))

----------------------------------------------------------------------------
(* Owning containers                                                       *)

\* PointerList<T>::push_back: the owned ordered sequence grows at its end
PointerList_push_back(list, p) == Append(list, p)

\* PointerSet<Module>::insert: an element is added unless the set already
\* holds one with the same hash that compares equal
PointerSet_insert(set, m) ==
    IF \E x \in set : Module_hash_value(x) = Module_hash_value(m) /\ Module_eq(x, m)
    THEN set
    ELSE set \cup {m}

----------------------------------------------------------------------------
(* Optional owned slots                                                    *)

\* boost::none and an optional that holds a reference to the object at p
None == [present |-> FALSE, ref |-> nullptr]
Some(p) == [present |-> TRUE, ref |-> p]

\* whether a payload is zero-like: the literal 0, the empty name, the
\* empty list
ZeroLike(obj) ==
    \/ obj.kind \in {"Integer", "Float"} /\ obj.value = 0
    \/ obj.kind = "Id" /\ obj.text = <<>>
    \/ obj.kind = "StatementList" /\ obj.items = <<>>

\* an accessor that takes a zero-like payload for an absent child
maybe_return_Sentinel(val) ==
    IF val # nullptr /\ ~ZeroLike(objHeap[val]) THEN Some(val) ELSE None

\* #define maybe_return(val)
\*     if ((val) != nullptr) return *(val); else return boost::none;
maybe_return(val) == IF val # nullptr THEN Some(val) ELSE None

\* explicit Return(Expression *e): expression(e) {}
Return_ctor(e) == [kind |-> "Return", expression |-> e]

\* boost::optional<Expression const&> Return::getExpression() const
Return_getExpression(node) == maybe_return(node.expression)

\* VarDeclaration(Id *n, Type t, bool p, Expression *i)
VarDeclaration_ctor(n, t, p, i) ==
    [kind |-> "VarDeclaration", name |-> n, point |-> p, init |-> i, type |-> t]

\* boost::optional<Expression const&> VarDeclaration::getInitializer() const
VarDeclaration_getInitializer(node) == maybe_return(node.init)

\* Body(PointerList<BranchCase> *c, PointerList<Statement> *e = nullptr)
BranchBody_ctor(c, e) == [kind |-> "BranchBody", cases |-> c, els |-> e]

\* boost::optional<PointerList<Statement> const&> Branch::Body::getElse() const
BranchBody_getElse(node) == maybe_return(node.els)

\* boost::optional<Function const&> Program::getMain() const
Program_getMain(main0) == maybe_return(main0)

----------------------------------------------------------------------------
(* Program                                                                 *)

\* the number of objects (Functions and Modules) a producer allocates
MaxObjects == 4
\* the module names a producer imports
ModuleNames == {<<"a">>, <<"b">>}

NoOp == [op |-> "none", arg |-> 0]

\* a main slot that is filled once and then kept
Program_setMain_KeepFirst(main0, m) == IF main0 # nullptr THEN main0 ELSE m

\* void setMain(Function *m) { main = Pointer<Function>(m); }
Program_setMain(main0, m) == m

\* a function list that grows at its front
Program_addFunction_Front(functions0, f) == <<f>> \o functions0

\* void addFunction(Function *f) { functions.push_back(f); }
Program_addFunction(functions0, f) == PointerList_push_back(functions0, f)

\* void addModule(Module *m) { modules.insert(m); }
Program_addModule(modules0, m) == PointerSet_insert(modules0, m)

\* PointerList<Function> const& getFunctions() const
Program_getFunctions == functions

\* PointerSet<Module> const& getModules() const
Program_getModules == modules

ProgInit ==
    /\ main = nullptr
    /\ functions = <<>>
    /\ modules = {}
    /\ nextObj = 1
    /\ addLog = <<>>
    /\ firstMain = nullptr
    /\ lastOp = NoOp

\* the producer passes a newly allocated Function, or no Function
SetMain ==
    /\ nextObj <= MaxObjects
    /\ \E m \in {nullptr, nextObj} :
        /\ main' = Program_setMain(main, m)
        /\ lastOp' = [op |-> "setMain", arg |-> m]
    /\ firstMain' = IF firstMain = nullptr THEN main' ELSE firstMain
    /\ nextObj' = nextObj + 1
    /\ UNCHANGED <<functions, modules, addLog>>
    /\ UNCHANGED notProgVars

AddFunction ==
    /\ nextObj <= MaxObjects
    /\ functions' = Program_addFunction(functions, nextObj)
    /\ addLog' = Append(addLog, nextObj)
    /\ lastOp' = [op |-> "addFunction", arg |-> nextObj]
    /\ nextObj' = nextObj + 1
    /\ UNCHANGED <<main, modules, firstMain>>
    /\ UNCHANGED notProgVars

AddModule ==
    /\ nextObj <= MaxObjects
    /\ \E n \in ModuleNames, t \in ModuleType :
        LET m == [id |-> nextObj, name |-> n, type |-> t] IN
        /\ modules' = Program_addModule(modules, m)
        /\ lastOp' = [op |-> "addModule", arg |-> m]
    /\ nextObj' = nextObj + 1
    /\ UNCHANGED <<main, functions, addLog, firstMain>>
    /\ UNCHANGED notProgVars

\* virtual bool emit(Emitter *emitter) const: the Program is handed to the
\* backend by const reference; r is what the backend answers
ProgramEmit ==
    /\ \E r \in BOOLEAN : lastOp' = [op |-> "emit", arg |-> r]
    /\ UNCHANGED <<main, functions, modules, nextObj, addLog, firstMain>>
    /\ UNCHANGED notProgVars

----------------------------------------------------------------------------
(* Constructing nodes with an optional child and reading the child back    *)

\* the number of nodes a producer constructs
MaxSlotNodes == 2

\* the children a producer may hand over
ExpressionPayloads ==
    {[kind |-> "Integer", value |-> 0], [kind |-> "Integer", value |-> 1],
     [kind |-> "Float", value |-> 0], [kind |-> "Id", text |-> <<>>],
     [kind |-> "Id", text |-> <<"a">>]}
StatementListPayloads ==
    {[kind |-> "StatementList", items |-> <<>>],
     [kind |-> "StatementList", items |-> <<"Abort">>]}
FunctionPayloads == {[kind |-> "Function", body |-> <<>>]}
NoRead2 == [node |-> 0, result |-> None]

\* the node constructed from a mandatory child at address req and an
\* optional child pointer opt
SlotNode(kind, req, opt) ==
    CASE kind = "Return" -> Return_ctor(opt)
      [] kind = "VarDeclaration" -> VarDeclaration_ctor(req, "UNKNOWN", FALSE, opt)
      [] kind = "BranchBody" -> BranchBody_ctor(req, opt)
      [] kind = "Program" -> [kind |-> "Program", main |-> Program_setMain(nullptr, opt)]

\* the accessor of a node's optional slot
SlotAccessor(node) ==
    CASE node.kind = "Return" -> Return_getExpression(node)
      [] node.kind = "VarDeclaration" -> VarDeclaration_getInitializer(node)
      [] node.kind = "BranchBody" -> BranchBody_getElse(node)
      [] node.kind = "Program" -> Program_getMain(node.main)

SlotPayloads(kind) ==
    CASE kind \in {"Return", "VarDeclaration"} -> ExpressionPayloads
      [] kind = "BranchBody" -> StatementListPayloads
      [] kind = "Program" -> FunctionPayloads

\* the mandatory child a constructor needs besides the optional one
SlotRequired(kind) ==
    CASE kind = "VarDeclaration" -> <<[kind |-> "Id", text |-> <<"a">>]>>
      [] kind = "BranchBody" -> <<[kind |-> "BranchCaseList", items |-> <<>>]>>
      [] OTHER -> <<>>

SlotKinds == {"Return", "VarDeclaration", "BranchBody", "Program"}

SlotInit ==
    /\ objHeap = <<>>
    /\ slotNodes = <<>>
    /\ slotSupplied = <<>>
    /\ slotRead = NoRead2

\* a node is constructed without its optional child
ConstructAbsent ==
    /\ Len(slotNodes) < MaxSlotNodes
    /\ \E kind \in SlotKinds :
        /\ objHeap' = objHeap \o SlotRequired(kind)
        /\ slotNodes' = Append(slotNodes, SlotNode(kind, Len(objHeap) + 1, nullptr))
        /\ slotSupplied' = Append(slotSupplied, nullptr)
    /\ UNCHANGED slotRead
    /\ UNCHANGED notSlotVars

\* a node is constructed with a newly allocated optional child
ConstructPresent ==
    /\ Len(slotNodes) < MaxSlotNodes
    /\ \E kind \in SlotKinds : \E child \in SlotPayloads(kind) :
        LET heap1 == objHeap \o SlotRequired(kind) \o <<child>> IN
        /\ objHeap' = heap1
        /\ slotNodes' = Append(slotNodes,
                               SlotNode(kind, Len(objHeap) + 1, Len(heap1)))
        /\ slotSupplied' = Append(slotSupplied, Len(heap1))
    /\ UNCHANGED slotRead
    /\ UNCHANGED notSlotVars

\* the optional child of node i is read through its accessor
ReadSlot ==
    /\ \E i \in 1..Len(slotNodes) :
        slotRead' = [node |-> i, result |-> SlotAccessor(slotNodes[i])]
    /\ UNCHANGED <<objHeap, slotNodes, slotSupplied>>
    /\ UNCHANGED notSlotVars

----------------------------------------------------------------------------
(* Id and FunctionPrototype                                                *)

\* explicit Id(std::string *c): value(c) {}
Id_ctor(c) == [kind |-> "Id", value |-> c]

\* std::string const& Id::getValue() const { return *value; }
Id_getValue(id) == strHeap[id.value]

\* bool operator==(Id const& a, Id const& b)
Id_eq(a, b) == Id_getValue(a) = Id_getValue(b)

\* FunctionPrototype(Id *n, Type r, PointerList<FunArg> *a)
FunctionPrototype_ctor(n, r, a) ==
    [kind |-> "FunctionPrototype", name |-> n, type |-> r, args |-> a]

\* Id const& FunctionPrototype::getName() const { return *name; }
FunctionPrototype_getName(p) == p.name

\* an equality on the whole signature
FunctionPrototype_eq_Signature(a, b) ==
    /\ Id_eq(FunctionPrototype_getName(a), FunctionPrototype_getName(b))
    /\ a.type = b.type
    /\ a.args = b.args

\* bool operator==(const FunctionPrototype &a, const FunctionPrototype &b)
FunctionPrototype_eq(a, b) ==
    Id_eq(FunctionPrototype_getName(a), FunctionPrototype_getName(b))

\* size_t hash_value(const monicelli::FunctionPrototype &e)
FunctionPrototype_hash_value(e) ==
    StdHashString(Id_getValue(FunctionPrototype_getName(e)))

\* the return types and argument lists the compared prototypes take
ProtoTypes == {"INT", "VOID", "UNKNOWN"}
ProtoArgs ==
    {<<>>, <<[name |-> <<"a">>, type |-> "INT", pointer |-> FALSE]>>}
NotCompared == [done |-> FALSE, eq |-> FALSE, hashA |-> 0, hashB |-> 0]

\* two prototypes, each owning its own identifier and string
ProtoInit ==
    /\ strHeap \in [1..2 -> Names]
    /\ \E ra \in ProtoTypes, aa \in ProtoArgs :
        protoA = FunctionPrototype_ctor(Id_ctor(1), ra, aa)
    /\ \E rb \in ProtoTypes, ab \in ProtoArgs :
        protoB = FunctionPrototype_ctor(Id_ctor(2), rb, ab)
    /\ protoCmp = NotCompared

ComparePrototypes ==
    /\ protoCmp' = [done |-> TRUE,
                    eq |-> FunctionPrototype_eq(protoA, protoB),
                    hashA |-> FunctionPrototype_hash_value(protoA),
                    hashB |-> FunctionPrototype_hash_value(protoB)]
    /\ UNCHANGED <<strHeap, protoA, protoB>>
    /\ UNCHANGED notProtoVars

----------------------------------------------------------------------------
(* Operator-fixing specializations                                         *)

\* SemiExpression(Operator op, Expression *l): op(op), left(l) {}
SemiExpression_ctor(op, l) == [kind |-> "SemiExpression", op |-> op, left |-> l]

\* Operator SemiExpression::getOperator() const { return op; }
SemiExpression_getOperator(node) == node.op

\* BinaryExpression(Expression *l, Operator op, Expression *r)
BinaryExpression_ctor(l, op, r) ==
    [kind |-> "BinaryExpression", left |-> l, op |-> op, right |-> r]

\* Operator BinaryExpression::getOperator() const { return op; }
BinaryExpression_getOperator(node) == node.op

\* the classes ExpLt .. ExpShr, by the operator their names state
ExpForms == {"LT", "GT", "LTE", "GTE", "PLUS", "MINUS", "TIMES", "DIV",
             "SHL", "SHR"}
\* the classes SemiExpEq .. SemiExpShr, by the operator their names state
SemiExpForms == ExpForms \cup {"EQ"}

\* ExpX(Expression *l, Expression *r): BinaryExpression(l, Operator::X, r) {}
Exp_ctor(form, l, r) ==
    BinaryExpression_ctor(l,
        CASE form = "LT" -> "LT"
          [] form = "GT" -> "GT"
          [] form = "LTE" -> "LTE"
          [] form = "GTE" -> "GTE"
          [] form = "PLUS" -> "PLUS"
          [] form = "MINUS" -> "MINUS"
          [] form = "TIMES" -> "TIMES"
          [] form = "DIV" -> "DIV"
          [] form = "SHL" -> "SHL"
          [] form = "SHR" -> "SHR",
        r)

\* SemiExpX(Expression *l): SemiExpression(Operator::X, l) {}, but
\* SemiExpShl passes Operator::SHR and SemiExpShr passes Operator::SHL
SemiExp_ctor(form, l) ==
    SemiExpression_ctor(
        CASE form = "EQ" -> "EQ"
          [] form = "LT" -> "LT"
          [] form = "GT" -> "GT"
          [] form = "LTE" -> "LTE"
          [] form = "GTE" -> "GTE"
          [] form = "PLUS" -> "PLUS"
          [] form = "MINUS" -> "MINUS"
          [] form = "TIMES" -> "TIMES"
          [] form = "DIV" -> "DIV"
          [] form = "SHL" -> "SHR"
          [] form = "SHR" -> "SHL",
        l)

\* the operand expressions, by address
Operands == 1..2
NoObj == [form |-> "none", node |-> [kind |-> "none", op |-> "none"]]

OpInit ==
    /\ binObj = NoObj
    /\ semiObj = NoObj

ConstructExp ==
    /\ \E form \in ExpForms, l \in Operands : \E r \in Operands \ {l} :
        binObj' = [form |-> form, node |-> Exp_ctor(form, l, r)]
    /\ UNCHANGED semiObj
    /\ UNCHANGED notOpVars

ConstructSemiExp ==
    /\ \E form \in SemiExpForms, l \in Operands :
        semiObj' = [form |-> form, node |-> SemiExp_ctor(form, l)]
    /\ UNCHANGED binObj
    /\ UNCHANGED notOpVars

----------------------------------------------------------------------------
(* A tree to emit                                                          *)

\* a program with two modules, a main and three functions, built bottom-up;
\* a child is named by its address, an absent optional child by nullptr
SampleTree ==
       1 :> [kind |-> "Module", name |-> "a", type |-> "SYSTEM"]
    @@ 2 :> [kind |-> "Module", name |-> "a", type |-> "USER"]
    @@ 3 :> [kind |-> "Id", text |-> "m"]
    @@ 4 :> [kind |-> "FunctionPrototype", name |-> 3, type |-> "VOID", args |-> <<>>]
    @@ 5 :> [kind |-> "Id", text |-> "x"]
    @@ 6 :> [kind |-> "Integer", value |-> 0]
    @@ 7 :> [kind |-> "VarDeclaration", name |-> 5, init |-> 6, type |-> "INT"]
    @@ 8 :> [kind |-> "Id", text |-> "x"]
    @@ 9 :> [kind |-> "Id", text |-> "x"]
    @@ 10 :> [kind |-> "Integer", value |-> 1]
    @@ 11 :> [kind |-> "ExpPlus", left |-> 9, right |-> 10]
    @@ 12 :> [kind |-> "Assignment", name |-> 8, value |-> 11]
    @@ 13 :> [kind |-> "Id", text |-> "x"]
    @@ 14 :> [kind |-> "Print", expression |-> 13]
    @@ 15 :> [kind |-> "Id", text |-> "x"]
    @@ 16 :> [kind |-> "Input", variable |-> 15]
    @@ 17 :> [kind |-> "Id", text |-> "x"]
    @@ 18 :> [kind |-> "Float", value |-> 2]
    @@ 19 :> [kind |-> "ExpLt", left |-> 17, right |-> 18]
    @@ 20 :> [kind |-> "Loop", body |-> <<12, 14, 16>>, condition |-> 19]
    @@ 21 :> [kind |-> "Return", expression |-> 0]
    @@ 22 :> [kind |-> "Function", prototype |-> 4, body |-> <<7, 20, 21>>]
    @@ 23 :> [kind |-> "Id", text |-> "f"]
    @@ 24 :> [kind |-> "Id", text |-> "a"]
    @@ 25 :> [kind |-> "FunctionPrototype", name |-> 23, type |-> "INT", args |-> <<24>>]
    @@ 26 :> [kind |-> "Id", text |-> "g"]
    @@ 27 :> [kind |-> "Id", text |-> "x"]
    @@ 28 :> [kind |-> "Integer", value |-> 3]
    @@ 29 :> [kind |-> "FunctionCall", name |-> 26, args |-> <<27, 28>>]
    @@ 30 :> [kind |-> "Abort"]
    @@ 31 :> [kind |-> "Id", text |-> "x"]
    @@ 32 :> [kind |-> "Return", expression |-> 31]
    @@ 33 :> [kind |-> "Integer", value |-> 1]
    @@ 34 :> [kind |-> "Integer", value |-> 4]
    @@ 35 :> [kind |-> "Print", expression |-> 34]
    @@ 36 :> [kind |-> "Id", text |-> "x"]
    @@ 37 :> [kind |-> "Integer", value |-> 1]
    @@ 38 :> [kind |-> "ExpShl", left |-> 36, right |-> 37]
    @@ 39 :> [kind |-> "Assert", expression |-> 38]
    @@ 40 :> [kind |-> "Abort"]
    @@ 41 :> [kind |-> "Id", text |-> "x"]
    @@ 42 :> [kind |-> "Branch", var |-> 41, cases |-> <<[op |-> "EQ", left |-> 33, body |-> <<29, 30, 32>>]>>, els |-> <<35, 39, 40>>, hasElse |-> TRUE]
    @@ 43 :> [kind |-> "Id", text |-> "y"]
    @@ 44 :> [kind |-> "VarDeclaration", name |-> 43, init |-> 0, type |-> "UNKNOWN"]
    @@ 45 :> [kind |-> "Abort"]
    @@ 46 :> [kind |-> "Function", prototype |-> 25, body |-> <<42, 44, 45>>]
    @@ 47 :> [kind |-> "Id", text |-> "g"]
    @@ 48 :> [kind |-> "FunctionPrototype", name |-> 47, type |-> "VOID", args |-> <<>>]
    @@ 49 :> [kind |-> "Function", prototype |-> 48, body |-> <<>>]
    @@ 50 :> [kind |-> "Id", text |-> "h"]
    @@ 51 :> [kind |-> "FunctionPrototype", name |-> 50, type |-> "VOID", args |-> <<>>]
    @@ 52 :> [kind |-> "Abort"]
    @@ 53 :> [kind |-> "Function", prototype |-> 51, body |-> <<52>>]
    @@ 54 :> [kind |-> "Program", modules |-> <<1, 2>>, main |-> 22, functions |-> <<46, 49, 53>>]

TreeNodes == DOMAIN SampleTree
ExpClasses == {"ExpLt", "ExpGt", "ExpLte", "ExpGte", "ExpPlus", "ExpMinus",
               "ExpTimes", "ExpDiv", "ExpShl", "ExpShr"}

----------------------------------------------------------------------------
(* The backend                                                             *)

\* what a backend has observed: the calls in order, and for every node
\* what its emit returned (ret) and what the backend's entry point
\* returned (bret); "none" when there was no call
NoneObserved ==
    [trace |-> <<>>,
     ret |-> [n \in TreeNodes |-> "none"],
     bret |-> [n \in TreeNodes |-> "none"]]
Answer(b) == IF b THEN "true" ELSE "false"

RECURSIVE CaseChildren(_)
CaseChildren(cases) ==
    IF cases = <<>> THEN <<>>
    ELSE <<Head(cases).left>> \o Head(cases).body \o CaseChildren(Tail(cases))

OptionalChild(p) == IF p # nullptr THEN <<p>> ELSE <<>>

\* the Emittable children an entry point visits, in visiting order
Children(n) ==
    LET o == SampleTree[n] IN
    CASE o.kind = "Program" -> o.modules \o OptionalChild(o.main) \o o.functions
      [] o.kind = "Function" -> <<o.prototype>> \o o.body
      [] o.kind = "FunctionPrototype" -> <<o.name>> \o o.args
      [] o.kind = "Loop" -> o.body \o <<o.condition>>
      [] o.kind = "VarDeclaration" -> <<o.name>> \o OptionalChild(o.init)
      [] o.kind = "Assignment" -> <<o.name, o.value>>
      [] o.kind = "Return" -> OptionalChild(o.expression)
      [] o.kind \in {"Print", "Assert"} -> <<o.expression>>
      [] o.kind = "Input" -> <<o.variable>>
      [] o.kind = "FunctionCall" -> <<o.name>> \o o.args
      [] o.kind = "Branch" ->
            <<o.var>> \o CaseChildren(o.cases) \o (IF o.hasElse THEN o.els ELSE <<>>)
      [] o.kind \in ExpClasses -> <<o.left, o.right>>
      [] OTHER -> <<>>

\* the element of a set of one element; the set binds a call's result
\* once where it is used several times
TheOne(S) == CHOOSE x \in S : TRUE

RECURSIVE Emitter_emit(_, _, _)

----------------------------------------------------------------------------
(* Emittable::emit and its overriders                                      *)

\* Id::emit handing itself to the entry point for Integer
Id_emit_WrongEntry(this, st) == Emitter_emit("Integer", this, st)

\* virtual bool Id::emit(Emitter *emitter) const { return emitter->emit(*this); }
Id_emit(this, st) == Emitter_emit("Id", this, st)

Integer_emit(this, st) == Emitter_emit("Integer", this, st)

Float_emit(this, st) == Emitter_emit("Float", this, st)

Return_emit(this, st) == Emitter_emit("Return", this, st)

Loop_emit(this, st) == Emitter_emit("Loop", this, st)

VarDeclaration_emit(this, st) == Emitter_emit("VarDeclaration", this, st)

Assignment_emit(this, st) == Emitter_emit("Assignment", this, st)

Print_emit(this, st) == Emitter_emit("Print", this, st)

Input_emit(this, st) == Emitter_emit("Input", this, st)

Abort_emit(this, st) == Emitter_emit("Abort", this, st)

Assert_emit(this, st) == Emitter_emit("Assert", this, st)

FunctionCall_emit(this, st) == Emitter_emit("FunctionCall", this, st)

Branch_emit(this, st) == Emitter_emit("Branch", this, st)

FunctionPrototype_emit(this, st) == Emitter_emit("FunctionPrototype", this, st)

\* Function::emit answering success whatever the backend answered
Function_emit_AlwaysTrue(this, st) ==
    [Emitter_emit("Function", this, st) EXCEPT !.ok = TRUE]

Function_emit(this, st) == Emitter_emit("Function", this, st)

Module_emit(this, st) == Emitter_emit("Module", this, st)

Program_emit(this, st) == Emitter_emit("Program", this, st)

\* BinaryExpression::emit answering success whatever the backend answered
BinaryExpression_emit_AlwaysTrue(this, st) ==
    [Emitter_emit("BinaryExpression", this, st) EXCEPT !.ok = TRUE]

\* inherited unchanged by ExpLt .. ExpShr
BinaryExpression_emit(this, st) == Emitter_emit("BinaryExpression", this, st)

\* a call n.emit(emitter) through the virtual table; the call and its
\* answer are noted in what the backend observed
Emittable_emit(n, st) ==
    LET kind == SampleTree[n].kind
        called == [st EXCEPT !.trace =
                      Append(@, [ev |-> "emit", entry |-> "", arg |-> n])]
        Returned(r) == [ok |-> r.ok, st |-> [r.st EXCEPT !.ret[n] = Answer(r.ok)]]
    IN  TheOne({Returned(r) : r \in {
             CASE kind = "Id" -> Id_emit(n, called)
               [] kind = "Integer" -> Integer_emit(n, called)
               [] kind = "Float" -> Float_emit(n, called)
               [] kind = "Return" -> Return_emit(n, called)
               [] kind = "Loop" -> Loop_emit(n, called)
               [] kind = "VarDeclaration" -> VarDeclaration_emit(n, called)
               [] kind = "Assignment" -> Assignment_emit(n, called)
               [] kind = "Print" -> Print_emit(n, called)
               [] kind = "Input" -> Input_emit(n, called)
               [] kind = "Abort" -> Abort_emit(n, called)
               [] kind = "Assert" -> Assert_emit(n, called)
               [] kind = "FunctionCall" -> FunctionCall_emit(n, called)
               [] kind = "Branch" -> Branch_emit(n, called)
               [] kind = "FunctionPrototype" -> FunctionPrototype_emit(n, called)
               [] kind = "Function" -> Function_emit(n, called)
               [] kind = "Module" -> Module_emit(n, called)
               [] kind = "Program" -> Program_emit(n, called)
               [] kind \in ExpClasses -> BinaryExpression_emit(n, called)}})

\* the children are emitted in order up to the first that fails
RECURSIVE EmitSequence(_, _)
EmitSequence(seq, st) ==
    IF seq = <<>> THEN [ok |-> TRUE, st |-> st]
    ELSE TheOne({IF r.ok THEN EmitSequence(Tail(seq), r.st) ELSE r :
                    r \in {Emittable_emit(Head(seq), st)}})

\* the backend's entry point for one node kind, handed the node arg: it
\* emits the node's children, stopping at the first failure, then does its
\* own work, which fails at the nodes of failSet
Emitter_emit(entry, arg, st) ==
    LET entered == [st EXCEPT !.trace =
                       Append(@, [ev |-> "entry", entry |-> entry, arg |-> arg])]
        Worked(kids) ==
            [ok |-> kids.ok /\ arg \notin failSet,
             st |-> [kids.st EXCEPT
                        !.bret[arg] = Answer(kids.ok /\ arg \notin failSet)]]
    IN TheOne({Worked(kids) : kids \in {EmitSequence(Children(arg), entered)}})

----------------------------------------------------------------------------
(* One emission                                                            *)

\* the number of nodes at which the backend's own work fails
MaxFail == 1

\* the subsets of S with at most k elements
RECURSIVE SubsetsUpTo(_, _)
SubsetsUpTo(S, k) ==
    IF k = 0 THEN {{}}
    ELSE LET smaller == SubsetsUpTo(S, k - 1)
         IN smaller \cup {F \cup {x} : F \in smaller, x \in S}

NotEmitted == [done |-> FALSE, ok |-> FALSE, st |-> NoneObserved]

EmitInit ==
    /\ emitRoot \in TreeNodes
    /\ failSet \in SubsetsUpTo(TreeNodes, MaxFail)
    /\ emitOut = NotEmitted

Emit ==
    /\ ~emitOut.done
    /\ \E r \in {Emittable_emit(emitRoot, NoneObserved)} :
          emitOut' = [done |-> TRUE, ok |-> r.ok, st |-> r.st]
    /\ UNCHANGED <<emitRoot, failSet>>
    /\ UNCHANGED notEmitVars

----------------------------------------------------------------------------
(* Specifications                                                          *)

\* groups of variables at rest
ProtoIdle ==
    /\ strHeap = [i \in 1..2 |-> <<>>]
    /\ protoA = FunctionPrototype_ctor(Id_ctor(1), "VOID", <<>>)
    /\ protoB = FunctionPrototype_ctor(Id_ctor(2), "VOID", <<>>)
    /\ protoCmp = NotCompared
EmitIdle ==
    /\ emitRoot = 54
    /\ failSet = {}
    /\ emitOut = NotEmitted

\* locations being set and read
InitLoc == LocInit /\ ProgInit /\ SlotInit /\ ProtoIdle /\ OpInit /\ EmitIdle
NextLoc == LocSet \/ LocGet
SpecLoc == InitLoc /\ [][NextLoc]_vars

\* a Program being assembled
InitProgram == LocInit /\ ProgInit /\ SlotInit /\ ProtoIdle /\ OpInit /\ EmitIdle
NextProgram == SetMain \/ AddFunction \/ AddModule \/ ProgramEmit
SpecProgram == InitProgram /\ [][NextProgram]_vars

\* nodes with an optional child being constructed and read
InitSlot == LocInit /\ ProgInit /\ SlotInit /\ ProtoIdle /\ OpInit /\ EmitIdle
NextSlot == ConstructAbsent \/ ConstructPresent \/ ReadSlot
SpecSlot == InitSlot /\ [][NextSlot]_vars

\* two prototypes being compared
InitProto == LocInit /\ ProgInit /\ SlotInit /\ ProtoInit /\ OpInit /\ EmitIdle
NextProto == ComparePrototypes
SpecProto == InitProto /\ [][NextProto]_vars

\* operator-fixing specializations being constructed
InitOp == LocInit /\ ProgInit /\ SlotInit /\ ProtoIdle /\ OpInit /\ EmitIdle
NextOp == ConstructExp \/ ConstructSemiExp
SpecOp == InitOp /\ [][NextOp]_vars

\* a tree being emitted
InitEmit == LocInit /\ ProgInit /\ SlotInit /\ ProtoIdle /\ OpInit /\ EmitInit
NextEmit == Emit
SpecEmit == InitEmit /\ [][NextEmit]_vars

----------------------------------------------------------------------------
(* Properties                                                              *)

Invoked(n) ==
    \E i \in 1..Len(emitOut.st.trace) :
        emitOut.st.trace[i].ev = "emit" /\ emitOut.st.trace[i].arg = n

\* where in the backend's observations the emit of node n was called
Position(n) ==
    CHOOSE i \in 1..Len(emitOut.st.trace) :
        emitOut.st.trace[i].ev = "emit" /\ emitOut.st.trace[i].arg = n

RECURSIVE CaseBodies(_)
CaseBodies(cases) ==
    IF cases = <<>> THEN {} ELSE {Head(cases).body} \cup CaseBodies(Tail(cases))

\* the statement sequences a composite owns: a Function's body, a Loop's
\* body, a Branch's case bodies and else-sequence, a Program's functions
StatementSequences(n) ==
    LET o == SampleTree[n] IN
    CASE o.kind \in {"Function", "Loop"} -> {o.body}
      [] o.kind = "Branch" ->
            CaseBodies(o.cases) \cup (IF o.hasElse THEN {o.els} ELSE {})
      [] o.kind = "Program" -> {o.functions}
      [] OTHER -> {}

\* C2: when a composite is emitted and a statement of a sequence it owns
\* fails to emit, the statements before it were emitted with success before
\* it, the emit of the statements after it is never called, and the
\* composite's emit returns failure.
C2_SequenceStopsAtFirstFailure ==
    emitOut.done =>
        \A n \in TreeNodes : \A seq \in StatementSequences(n) :
            \A i \in 1..Len(seq) :
                (Invoked(n) /\ emitOut.st.ret[seq[i]] = "false") =>
                    /\ \A j \in 1..(i - 1) :
                          /\ emitOut.st.ret[seq[j]] = "true"
                          /\ Position(seq[j]) < Position(seq[i])
                    /\ \A j \in (i + 1)..Len(seq) : ~Invoked(seq[j])
                    /\ emitOut.st.ret[n] = "false"

\* of a sequence of three statements the first succeeded, the second
\* failed and the third was skipped
C2_Witness ==
    /\ emitOut.done
    /\ \E n \in TreeNodes : \E seq \in StatementSequences(n) :
          /\ Invoked(n)
          /\ Len(seq) = 3
          /\ emitOut.st.ret[seq[1]] = "true"
          /\ emitOut.st.ret[seq[2]] = "false"
          /\ ~Invoked(seq[3])
          /\ emitOut.st.ret[n] = "false"

BinaryNodes == {n \in TreeNodes : SampleTree[n].kind \in ExpClasses}

\* C3: when a BinaryExpression is emitted and its left child fails to
\* emit, the emit of the right child is never called and the
\* BinaryExpression's emit returns failure; its emit returns success only
\* if both operands were emitted with success.
C3_BinaryShortCircuit ==
    emitOut.done =>
        \A n \in BinaryNodes :
            /\ (Invoked(n) /\ emitOut.st.ret[SampleTree[n].left] = "false") =>
                  /\ ~Invoked(SampleTree[n].right)
                  /\ emitOut.st.ret[n] = "false"
            /\ emitOut.st.ret[n] = "true" =>
                  /\ emitOut.st.ret[SampleTree[n].left] = "true"
                  /\ emitOut.st.ret[SampleTree[n].right] = "true"

\* the left child of a BinaryExpression failed
C3_Witness ==
    /\ emitOut.done
    /\ \E n \in BinaryNodes :
          /\ Invoked(n)
          /\ emitOut.st.ret[SampleTree[n].left] = "false"
          /\ ~Invoked(SampleTree[n].right)
          /\ emitOut.st.ret[n] = "false"

\* a module of the set with the name and kind of m
HasKey(set, m) == \E x \in set : x.name = m.name /\ x.type = m.type

\* C4: getModules never holds two modules with the same (name, kind);
\* addModule of a module whose (name, kind) is present leaves the size of
\* the set unchanged, and of one whose (name, kind) is not present (a
\* module of the same name and the other kind may be) grows it by one;
\* setMain, addFunction and emit leave the set alone.
C4_ModuleSetSemantics ==
    [][/\ \A x, y \in Program_getModules' :
             (x.name = y.name /\ x.type = y.type) => x = y
       /\ lastOp'.op = "addModule" =>
             IF HasKey(modules, lastOp'.arg)
             THEN Cardinality(modules') = Cardinality(modules)
             ELSE Cardinality(modules') = Cardinality(modules) + 1
       /\ lastOp'.op # "addModule" => modules' = modules]_vars

\* the set holds two modules of one name and both kinds, and the latest
\* addModule was of a module already present by (name, kind)
C4_Witness ==
    /\ lastOp.op = "addModule"
    /\ lastOp.arg \notin modules
    /\ \E x, y \in modules : x.name = y.name /\ x.type # y.type

\* C5: two prototypes are equal exactly when their names have the same
\* text, whatever their return types and argument lists, and equal
\* prototypes have equal hash values.
C5_PrototypeKeyIsName ==
    protoCmp.done =>
        /\ protoCmp.eq <=> (strHeap[protoA.name.value] = strHeap[protoB.name.value])
        /\ protoCmp.eq => protoCmp.hashA = protoCmp.hashB

\* two prototypes of one name that differ in return type and arguments
\* were compared
C5_Witness ==
    /\ protoCmp.done
    /\ protoCmp.eq
    /\ protoA.type # protoB.type
    /\ protoA.args # protoB.args

\* the entry point for a node's own kind
OwnEntry(kind) == IF kind \in ExpClasses THEN "BinaryExpression" ELSE kind

Entries == {"Id", "Integer", "Float", "BinaryExpression", "Return", "Loop",
            "VarDeclaration", "Assignment", "Print", "Input", "Abort",
            "Assert", "FunctionCall", "Branch", "FunctionPrototype",
            "Function", "Module", "Program"}

\* C6: every call of a node's emit is followed by the call of exactly one
\* entry point, the one for the node's own kind, with the node itself as
\* argument, and the emit returns what that entry point returned.
C6_EmitDispatchesOnce ==
    emitOut.done =>
        LET t == emitOut.st.trace IN
        /\ Len(t) % 2 = 0
        /\ \A k \in 1..(Len(t) \div 2) :
              /\ t[2 * k - 1].ev = "emit"
              /\ t[2 * k].ev = "entry"
              /\ t[2 * k].arg = t[2 * k - 1].arg
              /\ t[2 * k].entry = OwnEntry(SampleTree[t[2 * k - 1].arg].kind)
        /\ \A n \in TreeNodes : emitOut.st.ret[n] = emitOut.st.bret[n]
        /\ emitOut.st.ret[emitRoot] = Answer(emitOut.ok)

\* one emission went through the entry point of every node kind
C6_Witness ==
    /\ emitOut.done
    /\ emitOut.ok
    /\ \A e \in Entries :
          \E i \in 1..Len(emitOut.st.trace) : emitOut.st.trace[i].entry = e

\* C7, as stated: once the main slot holds a Function, no operation changes
\* which Function getMain returns or makes it absent.
C7_MainNeverReplaced ==
    [][main # nullptr => Program_getMain(main') = Program_getMain(main)]_vars

\* C7, amended: addFunction, addModule and emit never change what getMain
\* returns; setMain replaces what the main slot holds by its argument, also
\* when the slot already holds a Function.
C7_OnlySetMainReplacesMain ==
    [][/\ lastOp'.op = "setMain" =>
             Program_getMain(main') = maybe_return(lastOp'.arg)
       /\ lastOp'.op # "setMain" =>
             Program_getMain(main') = Program_getMain(main)]_vars

\* the main slot held a Function and a later setMain put another there
C7_Witness ==
    /\ firstMain # nullptr
    /\ main # nullptr
    /\ main # firstMain
    /\ lastOp.op = "setMain"

\* C8: the accessor of an optional slot reports a child present exactly
\* when the constructor was given one, and then reports that child,
\* whatever the child's payload.
C8_OptionalSlotFaithful ==
    slotRead.node # 0 =>
        /\ slotRead.result.present <=> (slotSupplied[slotRead.node] # nullptr)
        /\ slotRead.result.present =>
              slotRead.result.ref = slotSupplied[slotRead.node]

\* a child with a zero-like payload was read back as present
C8_Witness ==
    /\ slotRead.node # 0
    /\ slotSupplied[slotRead.node] # nullptr
    /\ slotRead.result.present
    /\ ZeroLike(objHeap[slotRead.result.ref])

\* C9: getFunctions yields the arguments of addFunction, each once per
\* call, in call order, and never the Function the main slot holds.
C9_FunctionsInCallOrder ==
    /\ Program_getFunctions = addLog
    /\ \A i \in 1..Len(Program_getFunctions) :
          main # nullptr => Program_getFunctions[i] # main

\* two functions were added, one before and one after a setMain
C9_Witness ==
    /\ Len(functions) = 2
    /\ main # nullptr
    /\ functions[1] < main
    /\ main < functions[2]

\* C10: a partial form and the full form of one name carry the same
\* operator, and SemiExpShl carries SHL and SemiExpShr carries SHR.
C10_SemiExpMatchesExp ==
    /\ (binObj.form # "none" /\ semiObj.form = binObj.form) =>
          SemiExpression_getOperator(semiObj.node)
              = BinaryExpression_getOperator(binObj.node)
    /\ semiObj.form = "SHL" => SemiExpression_getOperator(semiObj.node) = "SHL"
    /\ semiObj.form = "SHR" => SemiExpression_getOperator(semiObj.node) = "SHR"

====
